---------------------------- MODULE Spec2Model ----------------------------
(***************************************************************************)
(* State-machine model of QQChannel (src/nanobot/channels/qq.py): the      *)
(* session lifecycle (start / _run_bot / stop), the inbound handler        *)
(* _on_message with its dedup ledger, command interpreter and media        *)
(* fetches, the bus the canonical messages are handed to, and the outbound *)
(* sender send.                                                            *)
(*                                                                         *)
(* Python strings are sequences of one-character strings.  Attribute       *)
(* values of the platform's event objects are tagged records [t, v]:       *)
(* t = "str" (v the characters), "none" (None), "noattr" (the attribute    *)
(* does not exist), "int" (a truthy non-string, non-iterable value).       *)
(***************************************************************************)
EXTENDS Integers, Sequences, FiniteSets, TLC

(***************************************************************************)
(* Bounds of the model.  The ledger capacity is deque(maxlen=1000) in the  *)
(* source (qq.py:60); the model is written for any capacity and is checked *)
(* with the small capacity below so that the window rolls over.            *)
(***************************************************************************)
maxlen == 2

MaxHandlers == 2

\* Successful start() calls, each creating one client and one task.
MaxStarts == 2

\* Calls made on the channel from outside: start(), stop(), send(),
\* _on_message().
MaxCalls == maxlen + 2

NumIds == maxlen + 1

Ids == 1..NumIds

NoId == 0

(***************************************************************************)
(* Python values                                                           *)
(***************************************************************************)
PyStr(s) == [t |-> "str", v |-> s]

PyNone == [t |-> "none", v |-> <<>>]

NoAttr == [t |-> "noattr", v |-> <<>>]

PyInt == [t |-> "int", v |-> <<>>]

\* bool(x) for the tagged values above.
Truthy(x) == \/ x.t = "int"
             \/ x.t = "str" /\ x.v # <<>>

Whitespace == {" ", "\t", "\n"}

AsciiDigits == {"0", "1", "2", "3", "4", "5", "6", "7", "8", "9"}

\* str.isdigit() is also true of digit characters that int() rejects, such
\* as the superscript two, written "sup2" here.
OtherDigits == {"sup2"}

RECURSIVE LStrip(_)
LStrip(s) == IF s # <<>> /\ Head(s) \in Whitespace THEN LStrip(Tail(s)) ELSE s

RECURSIVE RStrip(_)
RStrip(s) == IF s # <<>> /\ s[Len(s)] \in Whitespace
             THEN RStrip(SubSeq(s, 1, Len(s) - 1))
             ELSE s

\* str.strip()
Strip(s) == RStrip(LStrip(s))

LowerChar(c) == CASE c = "R" -> "r"
                  [] c = "C" -> "c"
                  [] c = "E" -> "e"
                  [] c = "S" -> "s"
                  [] c = "T" -> "t"
                  [] c = "O" -> "o"
                  [] c = "N" -> "n"
                  [] c = "X" -> "x"
                  [] c = "H" -> "h"
                  [] c = "I" -> "i"
                  [] OTHER -> c

\* str.lower()
Lower(s) == [i \in 1..Len(s) |-> LowerChar(s[i])]

\* Index of the first space of s, 0 when there is none.
RECURSIVE FindSpace(_, _)
FindSpace(s, i) == IF i > Len(s) THEN 0
                   ELSE IF s[i] = " " THEN i
                   ELSE FindSpace(s, i + 1)

\* str.split(" ", n): at most n splits, empty parts kept.
RECURSIVE Split(_, _)
Split(s, n) ==
    LET k == FindSpace(s, 1) IN
    IF n = 0 \/ k = 0 THEN <<s>>
    ELSE <<SubSeq(s, 1, k - 1)>> \o Split(SubSeq(s, k + 1, Len(s)), n - 1)

\* str.isdigit()
IsDigit(s) == s # <<>> /\ \A i \in 1..Len(s) : s[i] \in AsciiDigits \cup OtherDigits

DigitValue(c) == CASE c = "0" -> 0 [] c = "1" -> 1 [] c = "2" -> 2 [] c = "3" -> 3
                   [] c = "4" -> 4 [] c = "5" -> 5 [] c = "6" -> 6 [] c = "7" -> 7
                   [] c = "8" -> 8 [] c = "9" -> 9

\* int(s) raises ValueError unless every character is a decimal digit.
IntRaises(s) == \E i \in 1..Len(s) : s[i] \notin AsciiDigits

RECURSIVE IntOf(_)
IntOf(s) == IF s = <<>> THEN 0
            ELSE 10 * IntOf(SubSeq(s, 1, Len(s) - 1)) + DigitValue(s[Len(s)])

ResetMarker == <<"R","e","s","e","t"," ","c","o","n","v","e","r","s","a","t","i","o","n",
                 " ","c","o","n","t","e","x","t",".">>

WindowMarker(n) == <<"S","e","t"," ","c","o","n","t","e","x","t"," ","w","i","n","d","o",
                     "w"," ","t","o"," ">> \o n

ImagePlaceholder == <<"[","I","m","a","g","e"," ","M","e","s","s","a","g","e","]">>

Unknown == <<"u","n","k","n","o","w","n">>

NoneText == <<"N","o","n","e">>

CmdReset == <<"/","r","e","s","e","t">>

CmdContext == <<"/","c","o","n","t","e","x","t">>

\* memory_window key absent from the metadata mapping.
NoWindow == -1

Metadata(id) == [message_id |-> id, reset_session |-> FALSE, memory_window |-> NoWindow]


(***************************************************************************)
(* Inbound events (RawInboundEvent): the attribute values _on_message      *)
(* reads from the platform's message object.                               *)
(***************************************************************************)
\* A URL and a user id are written as strings of one symbol.
Url1 == PyStr(<<"u1">>)

Url2 == PyStr(<<"u2">>)

Att(url) == [url |-> url]

AttList(s) == [t |-> "list", v |-> s]

Author(id, openid) == [t |-> "obj", id |-> id, user_openid |-> openid]

NoAuthor == [t |-> "noattr", id |-> NoAttr, user_openid |-> NoAttr]

PlainAuthor == Author(PyStr(<<"a1">>), NoAttr)

Hi == PyStr(<<" ", "h", "i", " ">>)

Event(id, author, content, attachments) ==
    [id |-> id, author |-> author, content |-> content, attachments |-> attachments]

\* A text and no attachments.
PlainEvent(i) == Event(i, PlainAuthor, Hi, NoAttr)

\* Blank text and an empty attachment list: nothing to forward.
BlankEvent == Event(1, PlainAuthor, PyStr(<<" ", "\t">>), AttList(<<>>))

\* No text, and three attachments of which the second has no url.
MediaOnlyEvent ==
    Event(1, PlainAuthor, PyNone, AttList(<<Att(Url1), Att(NoAttr), Att(Url2)>>))

\* A text, and two attachments of which the first has an empty url.
TextMediaEvent == Event(1, PlainAuthor, Hi, AttList(<<Att(PyStr(<<>>)), Att(Url2)>>))

\* No author attribute: data.author raises.
NoAuthorEvent == Event(1, NoAuthor, Hi, NoAttr)

\* A content that is no string: .strip() raises.
BadContentEvent == Event(1, PlainAuthor, PyInt, NoAttr)

\* "/context" with a digit that int() rejects: int() raises.
BadWindowEvent ==
    Event(1, PlainAuthor, PyStr(<<"/", "c", "o", "n", "t", "e", "x", "t", " ", "sup2">>),
          NoAttr)

\* Attachments that cannot be iterated: the for loop raises.
BadAttachmentsEvent == Event(1, PlainAuthor, Hi, PyInt)

\* No id attribute: data.id raises.
NoIdEvent == Event(NoId, NoAuthor, PyNone, NoAttr)

\* The events without attachments to fetch: a text under every id, an event
\* with nothing to forward and one on which _on_message raises.
CoreEvents == { PlainEvent(i) : i \in Ids } \cup { BlankEvent, NoAuthorEvent }

\* The events with attachments to fetch, and the ones above.
MediaEvents == CoreEvents \cup { MediaOnlyEvent, TextMediaEvent }

\* The events on which a step of _on_message raises, and a text.
FaultEvents == { PlainEvent(1), NoAuthorEvent, BadContentEvent, BadWindowEvent,
                 BadAttachmentsEvent, NoIdEvent }

\* The texts the command interpreter is checked on (qq.py:149-166).
CommandTexts ==
    {
      \* a window and a text
      <<"/", "c", "o", "n", "t", "e", "x", "t", " ", "5", " ", "h", "i">>,
      \* a window alone
      <<"/", "c", "o", "n", "t", "e", "x", "t", " ", "1", "2">>,
      \* an argument that is no number
      <<"/", "c", "o", "n", "t", "e", "x", "t", " ", "a", "b", "c">>,
      \* no argument
      <<"/", "c", "o", "n", "t", "e", "x", "t">>,
      \* two spaces: the second part is empty
      <<"/", "c", "o", "n", "t", "e", "x", "t", " ", " ", "7">>,
      \* the window zero
      <<"/", "c", "o", "n", "t", "e", "x", "t", " ", "0">>,
      \* /reset in capitals, with a text after it
      <<" ", "/", "R", "e", "s", "e", "t", " ", "n", "o", "w", " ">>,
      \* /reset alone
      <<"/", "r", "e", "s", "e", "t">>,
      \* an unrecognized command
      <<"/", "r", "e", "s", "e", "t", "x", " ", "1">>,
      \* a text that holds a command but does not start with one
      <<"h", "i", " ", "/", "r", "e", "s", "e", "t">> }

\* A command text, or a digit int() rejects, from an author with an id.
CommandEvents ==
    { Event(1, PlainAuthor, PyStr(text), NoAttr) : text \in CommandTexts } \cup { BadWindowEvent }

\* The authors of the platform's messages: with an id (direct messages), with
\* a user_openid alone (C2C messages), with both or neither, and with an
\* attribute that holds None or the empty string.
Authors == { PlainAuthor,
             Author(NoAttr, PyStr(<<"o1">>)),
             Author(PyStr(<<"a1">>), PyStr(<<"o1">>)),
             Author(PyNone, PyStr(<<"o1">>)),
             Author(NoAttr, NoAttr),
             Author(NoAttr, PyNone),
             Author(NoAttr, PyStr(<<>>)) }

AuthorEvents == { Event(2, a, Hi, NoAttr) : a \in Authors }

\* The answers of the HTTP client to one GET (aiohttp is external).
Responses == { [kind |-> "error", status |-> 0, ctype |-> ""],
               [kind |-> "http", status |-> 404, ctype |-> "image/png"],
               [kind |-> "http", status |-> 200, ctype |-> "image/png"] }

(***************************************************************************)
(* _download_media (qq.py:116-131)                                         *)
(***************************************************************************)
\* mimetypes.guess_extension(content_type) or ".jpg"
Extension(ctype) == CASE ctype = "image/png" -> ".png"
                      [] ctype = "image/gif" -> ".gif"
                      [] OTHER -> ".jpg"

\* The file NamedTemporaryFile creates is named by what it holds.
NoPath == [url |-> <<>>, suffix |-> ""]

_download_media(url, resp) ==
    IF resp.kind = "error" THEN NoPath                      \* except Exception: return None
    ELSE IF resp.status = 200 THEN [url |-> url, suffix |-> Extension(resp.ctype)]
    ELSE NoPath

(***************************************************************************)
(* The dedup ledger: deque(maxlen=...) (qq.py:60, 137-139)                 *)
(***************************************************************************)
\* Mutant of Seen: the membership test looks at the newest entry only.
SeenNewest(ledger, id) == ledger # <<>> /\ ledger[Len(ledger)] = id

\* Mutant of Seen: the membership test looks at the oldest entry only.
SeenOldest(ledger, id) == ledger # <<>> /\ ledger[1] = id

\* Mutant of Seen: no id is found in the ledger.
SeenNever(ledger, id) == FALSE

\* data.id in self._processed_ids
Seen(ledger, id) == \E k \in 1..Len(ledger) : ledger[k] = id

\* Mutant of DequeAppend: a plain list, nothing is evicted.
ListAppend(ledger, id) == Append(ledger, id)

\* Mutant of DequeAppend: a full ledger drops its newest entry.
AppendDropNewest(ledger, id) ==
    IF Len(ledger) >= maxlen
    THEN SubSeq(ledger, 1, maxlen - 1) \o <<id>>
    ELSE Append(ledger, id)

\* Mutant of DequeAppend: the id is not recorded.
AppendNothing(ledger, id) == ledger

\* self._processed_ids.append(data.id) on a deque bounded by maxlen
DequeAppend(ledger, id) ==
    IF Len(ledger) >= maxlen
    THEN SubSeq(ledger, Len(ledger) - maxlen + 2, Len(ledger)) \o <<id>>
    ELSE Append(ledger, id)

(***************************************************************************)
(* Author extraction (qq.py:141-142)                                       *)
(***************************************************************************)
\* str(x)
Str(x) == CASE x.t = "str" -> x.v
            [] x.t = "none" -> NoneText

\* str(getattr(author, 'id', None) or getattr(author, 'user_openid', 'unknown'))
UserId(author) ==
    LET id == IF author.t = "obj" /\ author.id.t # "noattr" THEN author.id ELSE PyNone
        openid == IF author.t = "obj" /\ author.user_openid.t # "noattr"
                  THEN author.user_openid ELSE PyStr(Unknown)
    IN Str(IF Truthy(id) THEN id ELSE openid)

(***************************************************************************)
(* Command interpreter (qq.py:146-166)                                     *)
(***************************************************************************)
\* Mutant of Interpret: /reset sets the directive and keeps the text.
InterpretResetKeepsText(raw_content, id) ==
    LET parts == Split(raw_content, 2)
        cmd == Lower(parts[1])
        plain == [exc |-> "", content |-> raw_content, metadata |-> Metadata(id)]
    IN IF raw_content = <<>> \/ Head(raw_content) # "/" THEN plain
       ELSE IF cmd = CmdReset
            THEN [plain EXCEPT !.metadata.reset_session = TRUE]
       ELSE IF cmd = CmdContext /\ Len(parts) >= 2 /\ IsDigit(parts[2])
            THEN IF IntRaises(parts[2])
                 THEN [plain EXCEPT !.exc = "ValueError"]
                 ELSE [plain EXCEPT !.metadata.memory_window = IntOf(parts[2]),
                                    !.content = IF Len(parts) > 2 THEN parts[3]
                                                ELSE WindowMarker(parts[2])]
       ELSE plain

Interpret(raw_content, id) ==
    LET parts == Split(raw_content, 2)
        cmd == Lower(parts[1])
        plain == [exc |-> "", content |-> raw_content, metadata |-> Metadata(id)]
    IN IF raw_content = <<>> \/ Head(raw_content) # "/" THEN plain
       ELSE IF cmd = CmdReset
            THEN [plain EXCEPT !.metadata.reset_session = TRUE, !.content = ResetMarker]
       ELSE IF cmd = CmdContext /\ Len(parts) >= 2 /\ IsDigit(parts[2])
            THEN IF IntRaises(parts[2])
                 THEN [plain EXCEPT !.exc = "ValueError"]
                 ELSE [plain EXCEPT !.metadata.memory_window = IntOf(parts[2]),
                                    !.content = IF Len(parts) > 2 THEN parts[3]
                                                ELSE WindowMarker(parts[2])]
       ELSE plain

(***************************************************************************)
(* Attachments (qq.py:169-175)                                             *)
(***************************************************************************)
\* hasattr(att, "url") and att.url
Usable(att) == att.url.t # "noattr" /\ Truthy(att.url)

\* The attachments from the next one the loop fetches.
RECURSIVE SkipUnusable(_)
SkipUnusable(atts) == IF atts # <<>> /\ ~Usable(Head(atts)) THEN SkipUnusable(Tail(atts))
                      ELSE atts

\* Mutant of Collect: the result is appended whether or not it is a path.
CollectAlways(media, path) == Append(media, path)

\* if path := ...: media.append(path)
Collect(media, path) == IF path # NoPath THEN Append(media, path) ELSE media

\* Mutant of NothingToForward: the media list is not looked at.
NoText(content, media) == content = <<>>

\* if not content and not media: return (qq.py:177)
NothingToForward(content, media) == content = <<>> /\ media = <<>>

\* except Exception as e (qq.py:187): the classes below derive from Exception.
ExceptionClasses == {"AttributeError", "TypeError", "ValueError", "PublishError"}

\* Mutant of Caught: the handler catches ValueError alone.
CaughtValueError(exc) == exc = "ValueError"

Caught(exc) == exc \in ExceptionClasses


(***************************************************************************)
(* Session supervisor: start, _run_bot, stop (qq.py:63-100)                *)
(***************************************************************************)
Configs == { [app_id |-> PyStr(<<"app">>), secret |-> PyStr(<<"key">>)],
             [app_id |-> PyStr(<<>>), secret |-> PyStr(<<"key">>)],
             [app_id |-> PyStr(<<"app">>), secret |-> PyNone] }

\* Mutant of CredentialsMissing: "and" for "or".
BothCredentialsMissing(cfg) == ~Truthy(cfg.app_id) /\ ~Truthy(cfg.secret)

\* if not self.config.app_id or not self.config.secret (qq.py:69)
CredentialsMissing(cfg) == ~Truthy(cfg.app_id) \/ ~Truthy(cfg.secret)

\* time units of the reconnect delay, asyncio.sleep(5) (qq.py:89)
ReconnectDelay == 5

Tasks == 1..MaxStarts

NoTask == 0

NoClient == 0

\* A task that has ended: its loop was left, or it was cancelled.
Finished == {"done", "cancelled"}

\* client is the client of the task's latest connection attempt, retry
\* whether that attempt followed an earlier one of the task, delay the
\* time the task sleeps for.
NotCreated == [pc |-> "none", client |-> NoClient, retry |-> FALSE, delay |-> 0]

\* while self._running: await self._client.start(...) (qq.py:82-84)
LoopTest(task, running, client) ==
    IF running THEN [pc |-> "connecting", client |-> client,
                     retry |-> task.client # NoClient, delay |-> 0]
    ELSE [task EXCEPT !.pc = "done", !.delay = 0]

\* Mutant of AfterConnection: the loop is left after the first connection.
GiveUpAfterConnection(task, running) == [task EXCEPT !.pc = "done", !.delay = 0]

\* client.start() returned or raised an Exception (qq.py:85-89): the wait
\* when still running, else the loop test, which ends the loop.
AfterConnection(task, running) ==
    IF running THEN [task EXCEPT !.pc = "sleeping", !.delay = ReconnectDelay]
    ELSE LoopTest(task, running, task.client)

\* await self._bot_task (qq.py:97): what the await raises in stop().
AwaitRaises(taskPc) == IF taskPc = "cancelled" THEN "CancelledError" ELSE ""

\* Mutant of Suppressed: stop() has no except clause.
SuppressedNever(exc) == FALSE

\* Mutant of Suppressed: the except clause names asyncio.TimeoutError.
SuppressedTimeout(exc) == exc = "TimeoutError"

\* except asyncio.CancelledError: pass (qq.py:98-99)
Suppressed(exc) == exc = "CancelledError"

StopOutcome(taskPc) ==
    LET exc == AwaitRaises(taskPc) IN
    IF exc # "" /\ ~Suppressed(exc) THEN "raised" ELSE "returned"

(***************************************************************************)
(* Outbound sender: send (qq.py:102-114)                                   *)
(***************************************************************************)
\* The errors post_c2c_message raises (botpy is external).
ApiErrors == {"ServerError", "TimeoutError"}

\* Mutant of SendCaught: the handler catches a timeout alone.
SendCaughtTimeout(exc) == exc = "TimeoutError"

\* except Exception as e (qq.py:113)
SendCaught(exc) == exc \in ApiErrors

\* How send() ends once post_c2c_message has returned (exc = "") or raised.
SendOutcome(exc) == IF exc = "" THEN "posted"
                    ELSE IF SendCaught(exc) THEN "failed"
                    ELSE "raised"

\* A send() call: the client it posts through, and the running flag as it
\* was when the call was made.
Post(client, running) == [result |-> "posting", client |-> client, running |-> running]

NotSent == [result |-> "none", client |-> NoClient, running |-> FALSE]

(***************************************************************************)
(* State                                                                   *)
(***************************************************************************)
VARIABLES
    QQ_AVAILABLE,     \* whether the platform SDK could be imported
    config,           \* the credentials the channel was constructed with
    _running,         \* the running flag
    _client,          \* the client handle, NoClient for None
    _bot_task,        \* the supervisor task handle, NoTask for None
    tasks,            \* every supervisor task created: its position in _run_bot
    stopping,         \* the task a suspended stop() awaits, NoTask when none
    lastStart,        \* how the last start() ended
    lastStop,         \* how the last stop() ended, and the task it awaited
    nStops,           \* number of stop() calls made
    nCalls,           \* number of calls made on the channel from outside
    _processed_ids,   \* the dedup ledger, oldest id first
    handlers,         \* the _on_message calls in flight, oldest first
    bus,              \* the canonical messages published, in order
    last,             \* the _on_message call that completed last, and how
    nDone,            \* number of _on_message calls completed
    delivered,        \* the ids of the events delivered, in order
    dropped,          \* ids of events processed as new and dropped
    sending,          \* the send() calls waiting for the platform's answer
    nSends,           \* number of send() calls made
    nPosts,           \* number of calls of the platform's post_c2c_message
    lastSend          \* the send() call that completed last, and how

sessionVars == <<_running, _client, _bot_task, tasks>>

lifeVars == <<QQ_AVAILABLE, config, sessionVars, stopping, lastStart, lastStop, nStops>>

inboundVars == <<_processed_ids, handlers, bus, last, nDone, delivered, dropped>>

outboundVars == <<sending, nSends, nPosts, lastSend>>

vars == <<lifeVars, nCalls, inboundVars, outboundVars>>

\* The k-th successful start() creates client k and task k.
Created == {t \in Tasks : tasks[t].pc # "none"}

\* start() (qq.py:63-78)
Start ==
    /\ nCalls < MaxCalls
    /\ nCalls' = nCalls + 1
    /\ IF ~QQ_AVAILABLE
       THEN lastStart' = "sdk_missing" /\ UNCHANGED sessionVars
       ELSE IF CredentialsMissing(config)
       THEN lastStart' = "no_credentials" /\ UNCHANGED sessionVars
       ELSE LET k == Cardinality(Created) + 1 IN
            /\ k <= MaxStarts
            /\ _running' = TRUE
            /\ _client' = k
            /\ _bot_task' = k
            /\ tasks' = [tasks EXCEPT ![k] = [NotCreated EXCEPT !.pc = "created"]]
            /\ lastStart' = "started"
    /\ UNCHANGED <<QQ_AVAILABLE, config, nStops, stopping, lastStop, inboundVars, outboundVars>>

\* The event loop runs task t for the first time (qq.py:80-84).
TaskRun(t) ==
    /\ tasks[t].pc = "created"
    /\ tasks' = [tasks EXCEPT ![t] = LoopTest(@, _running, _client)]
    /\ UNCHANGED <<QQ_AVAILABLE, config, nStops, _running, _client, _bot_task, stopping,
                   lastStart, lastStop, nCalls, inboundVars, outboundVars>>

\* client.start() of task t returns after a disconnect, or raises an error.
ConnectionEnds(t) ==
    /\ tasks[t].pc = "connecting"
    /\ tasks' = [tasks EXCEPT ![t] = AfterConnection(@, _running)]
    /\ UNCHANGED <<QQ_AVAILABLE, config, nStops, _running, _client, _bot_task, stopping,
                   lastStart, lastStop, nCalls, inboundVars, outboundVars>>

\* The sleep of task t is over (qq.py:89, 82-84).
SleepEnds(t) ==
    /\ tasks[t].pc = "sleeping"
    /\ tasks' = [tasks EXCEPT ![t] = LoopTest(@, _running, _client)]
    /\ UNCHANGED <<QQ_AVAILABLE, config, nStops, _running, _client, _bot_task, stopping,
                   lastStart, lastStop, nCalls, inboundVars, outboundVars>>

\* Task t, cancelled by stop(), is resumed with CancelledError, which
\* "except Exception" (qq.py:85) does not catch: the task ends cancelled.
Cancelled(t) ==
    /\ tasks[t].pc = "cancelling"
    /\ tasks' = [tasks EXCEPT ![t] = [@ EXCEPT !.pc = "cancelled", !.delay = 0]]
    /\ UNCHANGED <<QQ_AVAILABLE, config, nStops, _running, _client, _bot_task, stopping,
                   lastStart, lastStop, nCalls, inboundVars, outboundVars>>

\* stop() up to its await (qq.py:91-97).  With no task it returns at once;
\* awaiting a finished task does not suspend.
Stop ==
    /\ nCalls < MaxCalls
    /\ stopping = NoTask
    /\ nCalls' = nCalls + 1
    /\ nStops' = nStops + 1
    /\ _running' = FALSE
    /\ IF _bot_task = NoTask
       THEN /\ lastStop' = [result |-> "returned", task |-> NoTask]
            /\ UNCHANGED <<tasks, stopping>>
       ELSE IF tasks[_bot_task].pc \in Finished
       THEN /\ lastStop' = [result |-> StopOutcome(tasks[_bot_task].pc), task |-> _bot_task]
            /\ UNCHANGED <<tasks, stopping>>
       ELSE /\ tasks' = [tasks EXCEPT ![_bot_task].pc = "cancelling"]
            /\ stopping' = _bot_task
            /\ UNCHANGED lastStop
    /\ UNCHANGED <<QQ_AVAILABLE, config, _client, _bot_task, lastStart, inboundVars, outboundVars>>

\* The task stop() awaits has finished: stop() resumes and returns (qq.py:97-100).
StopResumes ==
    /\ stopping # NoTask
    /\ tasks[stopping].pc \in Finished
    /\ lastStop' = [result |-> StopOutcome(tasks[stopping].pc), task |-> stopping]
    /\ stopping' = NoTask
    /\ UNCHANGED <<QQ_AVAILABLE, config, nStops, sessionVars, lastStart, nCalls, inboundVars, outboundVars>>

(***************************************************************************)
(* Inbound normalizer: _on_message (qq.py:133-188)                         *)
(***************************************************************************)
Slots == 1..MaxHandlers

\* The locals of one _on_message call.  fetches is the record of the
\* downloads made so far; exc is the exception that ended the call.
IdleHandler == [pc |-> "idle", id |-> NoId, author |-> NoAuthor, user_id |-> <<>>,
                raw_content |-> <<>>,
                content |-> <<>>, metadata |-> Metadata(NoId), todo |-> <<>>,
                media |-> <<>>, fetches |-> <<>>, exc |-> ""]

\* The arguments of self._handle_message(...) (qq.py:180-186)
Canonical(h) == [sender_id |-> h.user_id, chat_id |-> h.user_id,
                 content |-> IF h.content # <<>> THEN h.content ELSE ImagePlaceholder,
                 metadata |-> h.metadata, media |-> h.media]

\* BaseChannel._handle_message: publishes the message to the bus, or raises.
_handle_message(b, msg, ok) == IF ok THEN Append(b, msg) ELSE b

\* raise exc inside the try block of _on_message (qq.py:135, 187-188)
Raise(h, exc) == [h EXCEPT !.pc = IF Caught(exc) THEN "raised" ELSE "propagated",
                           !.exc = exc]

\* qq.py:177-186, up to the await of _handle_message
AfterMedia(h) == IF NothingToForward(h.content, h.media)
                 THEN [h EXCEPT !.pc = "empty"]
                 ELSE [h EXCEPT !.pc = "publish"]

\* qq.py:135-174: _on_message from its entry to its first await or its return.
Prefix(ev, ledger) ==
    IF ev.id = NoId
    THEN [ledger |-> ledger, h |-> Raise(IdleHandler, "AttributeError")]
    ELSE IF Seen(ledger, ev.id)
    THEN [ledger |-> ledger, h |-> [IdleHandler EXCEPT !.pc = "dup", !.id = ev.id]]
    ELSE
      LET led == DequeAppend(ledger, ev.id)
          h1 == [IdleHandler EXCEPT !.id = ev.id, !.metadata = Metadata(ev.id)]
      IN
      IF ev.author.t = "noattr" THEN [ledger |-> led, h |-> Raise(h1, "AttributeError")]
      ELSE
        LET h2 == [h1 EXCEPT !.author = ev.author, !.user_id = UserId(ev.author)] IN
        IF ev.content.t = "int" THEN [ledger |-> led, h |-> Raise(h2, "AttributeError")]
        ELSE
          LET raw == Strip(IF Truthy(ev.content) THEN ev.content.v ELSE <<>>)
              r == Interpret(raw, ev.id)
              h3 == [h2 EXCEPT !.raw_content = raw, !.content = r.content,
                               !.metadata = r.metadata]
          IN
          IF r.exc # "" THEN [ledger |-> led, h |-> Raise(h3, r.exc)]
          ELSE IF ev.attachments.t = "int"
               THEN [ledger |-> led, h |-> Raise(h3, "TypeError")]
          ELSE
            LET atts == IF ev.attachments.t = "list"
                        THEN SkipUnusable(ev.attachments.v) ELSE <<>>
            IN
            IF atts # <<>>
            THEN [ledger |-> led, h |-> [h3 EXCEPT !.pc = "fetch", !.todo = atts]]
            ELSE [ledger |-> led, h |-> AfterMedia(h3)]

Suspended(h) == h.pc \in {"fetch", "publish"}

\* The sequence q with its element s replaced by h; s = Len(q) + 1 adds h.
Put(q, s, h) == SubSeq(q, 1, s - 1) \o <<h>> \o SubSeq(q, s + 1, Len(q))

Remove(q, s) == SubSeq(q, 1, s - 1) \o SubSeq(q, s + 1, Len(q))

\* The call at place s goes on to state h: it stays in flight, or completes.
Continue(s, h) ==
    IF Suspended(h)
    THEN /\ handlers' = Put(handlers, s, h)
         /\ UNCHANGED <<last, nDone, dropped>>
    ELSE /\ handlers' = Remove(handlers, s)
         /\ last' = h
         /\ nDone' = nDone + 1
         /\ dropped' = IF h.pc \in {"empty", "raised", "propagated"} /\ h.id # NoId
                       THEN dropped \cup {h.id} ELSE dropped

\* The platform (or a caller) delivers event ev: _on_message(ev) runs to its
\* first suspension point.
OnMessage(ev) ==
    /\ nCalls < MaxCalls
    /\ Len(handlers) < MaxHandlers
    /\ LET p == Prefix(ev, _processed_ids) IN
       /\ _processed_ids' = p.ledger
       /\ delivered' = IF ev.id # NoId THEN Append(delivered, ev.id) ELSE delivered
       /\ Continue(Len(handlers) + 1, p.h)
    /\ nCalls' = nCalls + 1
    /\ UNCHANGED <<lifeVars, outboundVars, bus>>

\* The download awaited by call s ends with response resp (qq.py:172-175).
FetchDone(s, resp) ==
    /\ s <= Len(handlers)
    /\ handlers[s].pc = "fetch"
    /\ LET h == handlers[s]
           url == Head(h.todo).url.v
           path == _download_media(url, resp)
           h1 == [h EXCEPT !.media = Collect(@, path),
                           !.fetches = Append(@, [url |-> url, resp |-> resp]),
                           !.todo = SkipUnusable(Tail(@))]
       IN Continue(s, IF h1.todo # <<>> THEN h1 ELSE AfterMedia(h1))
    /\ UNCHANGED <<lifeVars, outboundVars, nCalls, _processed_ids, bus, delivered>>

\* The await of _handle_message by call s ends: published, or an error.
PublishDone(s, ok) ==
    /\ s <= Len(handlers)
    /\ handlers[s].pc = "publish"
    /\ LET h == handlers[s] IN
       /\ bus' = _handle_message(bus, Canonical(h), ok)
       /\ Continue(s, IF ok THEN [h EXCEPT !.pc = "published"]
                      ELSE Raise(h, "PublishError"))
    /\ UNCHANGED <<lifeVars, outboundVars, nCalls, _processed_ids, delivered>>

(***************************************************************************)
(* Outbound sender: send (qq.py:102-114)                                   *)
(***************************************************************************)
\* send(msg) up to its await: without a client it logs and returns.
Send ==
    /\ nCalls < MaxCalls
    /\ Len(sending) < MaxHandlers
    /\ nCalls' = nCalls + 1
    /\ nSends' = nSends + 1
    /\ IF _client = NoClient
       THEN /\ lastSend' = [Post(NoClient, _running) EXCEPT !.result = "no_client"]
            /\ UNCHANGED <<sending, nPosts>>
       ELSE /\ sending' = Append(sending, Post(_client, _running))
            /\ nPosts' = nPosts + 1
            /\ UNCHANGED lastSend
    /\ UNCHANGED <<lifeVars, inboundVars>>

\* post_c2c_message of the send() at place s returns, or raises exc.
SendDone(s, exc) ==
    /\ s <= Len(sending)
    /\ lastSend' = [sending[s] EXCEPT !.result = SendOutcome(exc)]
    /\ sending' = Remove(sending, s)
    /\ UNCHANGED <<lifeVars, nCalls, inboundVars, nSends, nPosts>>

(***************************************************************************)
(* Specifications                                                          *)
(***************************************************************************)
\* The channel as constructed (qq.py:56-61), with configuration cfg.
Constructed(cfgs, sdk) ==
    /\ QQ_AVAILABLE \in sdk
    /\ config \in cfgs
    /\ _running = FALSE
    /\ _client = NoClient
    /\ _bot_task = NoTask
    /\ tasks = [t \in Tasks |-> NotCreated]
    /\ stopping = NoTask
    /\ lastStart = "none"
    /\ lastStop = [result |-> "none", task |-> NoTask]
    /\ nStops = 0
    /\ nCalls = 0
    /\ _processed_ids = <<>>
    /\ handlers = <<>>
    /\ bus = <<>>
    /\ last = IdleHandler
    /\ nDone = 0
    /\ delivered = <<>>
    /\ dropped = {}
    /\ sending = <<>>
    /\ nSends = 0
    /\ nPosts = 0
    /\ lastSend = NotSent

Init == Constructed(Configs, BOOLEAN)

Supervisor ==
    \/ Start
    \/ Stop
    \/ StopResumes
    \/ \E t \in Tasks : TaskRun(t)
    \/ \E t \in Tasks : ConnectionEnds(t)
    \/ \E t \in Tasks : SleepEnds(t)
    \/ \E t \in Tasks : Cancelled(t)

\* _on_message under the events of the set given.
Inbound(events) ==
    \/ \E ev \in events : OnMessage(ev)
    \/ \E s \in Slots, resp \in Responses : FetchDone(s, resp)
    \/ \E s \in Slots, ok \in BOOLEAN : PublishDone(s, ok)

\* _on_message under events without attachments to fetch: no call waits for
\* a download.
Unfetched(events) ==
    \/ \E ev \in events : OnMessage(ev)
    \/ \E s \in Slots, ok \in BOOLEAN : PublishDone(s, ok)

Outbound ==
    \/ Send
    \/ \E s \in Slots, exc \in {""} \cup ApiErrors : SendDone(s, exc)

Next ==
    \/ Supervisor
    \/ Inbound(MediaEvents \cup FaultEvents \cup CommandEvents \cup AuthorEvents)
    \/ Outbound

\* The whole channel.
Spec == Init /\ [][Next]_vars

\* The session supervisor alone: no event is delivered.
SpecLife == Init /\ [][Supervisor]_vars

\* The session supervisor with the event loop's scheduling: a task that can
\* run is run, a sleep ends.  How long a connection holds is the platform's.
FairLife ==
    /\ SpecLife
    /\ WF_vars(StopResumes)
    /\ \A t \in Tasks : WF_vars(TaskRun(t)) /\ WF_vars(SleepEnds(t)) /\ WF_vars(Cancelled(t))

\* The inbound normalizer alone: start() and stop() are not called.
SpecInbound ==
    Constructed({cfg \in Configs : ~CredentialsMissing(cfg)}, {TRUE}) /\ [][Inbound(MediaEvents)]_vars

\* The whole channel under the events without attachments.
SpecSession == Init /\ [][Supervisor \/ Unfetched(CoreEvents)]_vars

\* The whole channel under the events on which _on_message raises.
SpecFaults == Init /\ [][Supervisor \/ Unfetched(FaultEvents)]_vars

\* The whole channel with its outbound sender, under one inbound event.
SpecOutbound == Init /\ [][Supervisor \/ Unfetched({PlainEvent(1)}) \/ Outbound]_vars

\* The inbound normalizer under the command texts and the authors.
SpecNormalizer ==
    /\ Constructed({cfg \in Configs : ~CredentialsMissing(cfg)}, {TRUE})
    /\ [][Unfetched(CommandEvents \cup AuthorEvents)]_vars

(***************************************************************************)
(* The dedup window as the specification states it: the last maxlen ids    *)
(* first-inserted, an id already in the window leaving it as it is.        *)
(***************************************************************************)
Range(q) == {q[k] : k \in 1..Len(q)}

RECURSIVE Window(_)
Window(log) ==
    IF log = <<>> THEN <<>>
    ELSE LET w == Window(SubSeq(log, 1, Len(log) - 1))
             x == log[Len(log)]
         IN IF x \in Range(w) THEN w
            ELSE IF Len(w) = maxlen THEN Tail(w) \o <<x>>
            ELSE w \o <<x>>

\* Delivery k found its id outside the window: the event is a new one.
NewAt(k) == delivered[k] \notin Range(Window(SubSeq(delivered, 1, k - 1)))

\* Id i was delivered as a new event once, and again while in the window.
DeliveredTwice(i) ==
    /\ Cardinality({k \in 1..Len(delivered) : delivered[k] = i /\ NewAt(k)}) = 1
    /\ \E k \in 1..Len(delivered) : delivered[k] = i /\ ~NewAt(k)

InFlight(i) == \E s \in 1..Len(handlers) : handlers[s].id = i

\* Number of canonical messages published for id i.
Published(i) == Cardinality({k \in 1..Len(bus) : bus[k].metadata.message_id = i})

(***************************************************************************)
(* C1, as stated: an id delivered twice within the dedup window has        *)
(* exactly one canonical message published for it, once its calls are over.*)
(***************************************************************************)
C1_ExactlyOnePublished ==
    \A i \in Ids : DeliveredTwice(i) /\ ~InFlight(i) => Published(i) = 1

(***************************************************************************)
(* C1, amended: an id delivered twice within the dedup window has at most  *)
(* one canonical message published for it: one when its first delivery was *)
(* published, none when its first delivery was dropped (nothing to         *)
(* forward, or an exception).                                              *)
(***************************************************************************)
C1_AtMostOnePublished ==
    \A i \in Ids :
        DeliveredTwice(i) /\ ~InFlight(i) =>
            Published(i) = IF i \in dropped THEN 0 ELSE 1

C1_Witness ==
    \E i \in Ids : DeliveredTwice(i) /\ ~InFlight(i) /\ Published(i) = 1 /\ last.pc = "dup"

(***************************************************************************)
(* C2: the dedup ledger never holds more than maxlen identifiers.          *)
(***************************************************************************)
C2_LedgerBounded == Len(_processed_ids) <= maxlen

C2_Witness ==
    /\ Cardinality(Range(delivered)) > maxlen
    /\ Len(_processed_ids) = maxlen
    /\ lastStart = "started"

(***************************************************************************)
(* C3: the ledger is the dedup window of the ids delivered, first-in       *)
(* first-out by first insertion: the oldest id leaves when a new id comes  *)
(* to a full ledger, and a delivery of an id in the window moves nothing.  *)
(***************************************************************************)
C3_FifoEviction == _processed_ids = Window(delivered)

\* Id 1 was delivered again while in the window and was still the one
\* evicted when a new id came to the full ledger.
C3_Witness ==
    /\ DeliveredTwice(1)
    /\ Len(_processed_ids) = maxlen
    /\ 1 \notin Range(_processed_ids)


(***************************************************************************)
(* C4: while the session is running, a connection attempt that ends is     *)
(* followed by a wait of ReconnectDelay and the wait by a new attempt;     *)
(* nothing counts the retries, and only stop() ends them.                  *)
(***************************************************************************)
C4_Reconnect ==
    /\ [][\A t \in Tasks :
            /\ (tasks[t].pc = "connecting" /\ tasks'[t].pc # "connecting" /\ _running')
                  => tasks'[t].pc = "sleeping" /\ tasks'[t].delay = ReconnectDelay
            /\ (tasks[t].pc = "sleeping" /\ tasks'[t].pc # "sleeping" /\ _running')
                  => tasks'[t].pc = "connecting" /\ tasks'[t].retry]_vars
    /\ \A t \in Tasks :
            (tasks[t].pc = "sleeping") ~> (tasks[t].pc = "connecting" \/ ~_running)

\* A task in a connection attempt that followed a wait.
C4_Witness == \E t \in Tasks : tasks[t].pc = "connecting" /\ tasks[t].retry /\ _running

(***************************************************************************)
(* C5: no connection attempt starts while the running flag is false, which *)
(* it is from stop() until the next successful start(); stop() returns     *)
(* normally, and the task it awaited has finished by then.                 *)
(***************************************************************************)
C5_StopEndsTheLoop ==
    /\ [](/\ lastStop.result # "raised"
          /\ lastStop.task # NoTask => tasks[lastStop.task].pc \in Finished)
    /\ [][/\ \A t \in Tasks :
                (tasks'[t].pc = "connecting" /\ tasks[t].pc # "connecting") => _running
          /\ (stopping = NoTask /\ (stopping' # NoTask \/ lastStop' # lastStop))
                => ~_running'
          /\ (~_running /\ _running') => lastStart' = "started" /\ nCalls' = nCalls + 1]_vars

\* stop() has returned after the cancellation of a task that had connected.
C5_Witness ==
    /\ lastStop.result = "returned"
    /\ lastStop.task # NoTask
    /\ tasks[lastStop.task].pc = "cancelled"
    /\ tasks[lastStop.task].client # NoClient

(***************************************************************************)
(* C6: at most one supervisor task runs the reconnect loop at any time.    *)
(***************************************************************************)
C6_OneSupervisor ==
    Cardinality({t \in Tasks : tasks[t].pc \in {"connecting", "sleeping"}}) <= 1

(***************************************************************************)
(* C7, as stated: with a credential absent start() starts nothing and      *)
(* returns; with both present it sets the running flag and launches the    *)
(* loop.                                                                   *)
(***************************************************************************)
Absent(x) == x.t = "none" \/ (x.t = "str" /\ x.v = <<>>)

CredentialAbsent == Absent(config.app_id) \/ Absent(config.secret)

NothingStarted ==
    /\ ~_running
    /\ _client = NoClient
    /\ _bot_task = NoTask
    /\ \A t \in Tasks : tasks[t].pc = "none"

\* No start() has ended otherwise than by returning after its error log.
Returned == lastStart \in {"none", "no_credentials", "sdk_missing"}

LoopLaunched ==
    /\ lastStart = "started"
    /\ _client # NoClient
    /\ _bot_task # NoTask
    /\ tasks[_bot_task].pc # "none"
    /\ (lastStop.result = "none" /\ stopping = NoTask) => _running

C7_StartSoftFailure ==
    /\ CredentialAbsent => NothingStarted /\ Returned
    /\ (~CredentialAbsent /\ lastStart # "none") => LoopLaunched

(***************************************************************************)
(* C7, amended: with a credential absent, or with the platform SDK not     *)
(* importable, start() starts nothing and returns; with both credentials   *)
(* present and the SDK importable it sets the running flag and launches    *)
(* the loop.                                                               *)
(***************************************************************************)
C7_StartSoftFailureOrSdk ==
    /\ CredentialAbsent => NothingStarted /\ Returned
    /\ ~QQ_AVAILABLE => NothingStarted /\ Returned
    /\ (~CredentialAbsent /\ QQ_AVAILABLE /\ lastStart # "none") => LoopLaunched

C7_Witness == CredentialAbsent /\ QQ_AVAILABLE /\ lastStart = "no_credentials"


(***************************************************************************)
(* C8: an exception raised at a step of _on_message is caught in it: the   *)
(* call returns, nothing is published for the event, and the running flag, *)
(* the client and the supervisor tasks are as they were.                   *)
(***************************************************************************)
C8_ExceptionsContained ==
    /\ [](last.pc # "propagated")
    /\ [][(nDone' # nDone /\ last'.pc = "raised") =>
             /\ _running' = _running
             /\ _client' = _client
             /\ _bot_task' = _bot_task
             /\ tasks' = tasks
             /\ bus' = bus
             /\ Len(handlers') <= Len(handlers)]_vars

\* The publish of an event raised while a supervisor task held a connection.
C8_Witness ==
    /\ last.pc = "raised"
    /\ last.exc = "PublishError"
    /\ _running
    /\ \E t \in Tasks : tasks[t].pc = "connecting"

(***************************************************************************)
(* C9: the media list of a published message is the paths of the fetches   *)
(* that succeeded, in the order of the attachments, and a fetch that       *)
(* failed does not keep the message from the bus.                          *)
(***************************************************************************)
Succeeded(f) == f.resp.kind = "http" /\ f.resp.status = 200

RECURSIVE PathsOf(_)
PathsOf(fs) ==
    IF fs = <<>> THEN <<>>
    ELSE (IF Succeeded(Head(fs))
          THEN <<[url |-> Head(fs).url, suffix |-> Extension(Head(fs).resp.ctype)]>>
          ELSE <<>>) \o PathsOf(Tail(fs))

\* The call reached the publish of its message: published, or the bus raised.
HandedToBus(h) == h.pc = "published" \/ (h.pc = "raised" /\ h.exc = "PublishError")

C9_MediaDegradation ==
    /\ last.pc = "published" =>
          /\ bus # <<>>
          /\ bus[Len(bus)].metadata.message_id = last.id
          /\ bus[Len(bus)].media = PathsOf(last.fetches)
    /\ (/\ \E k \in 1..Len(last.fetches) : ~Succeeded(last.fetches[k])
        /\ last.raw_content # <<>> \/ PathsOf(last.fetches) # <<>>)
          => HandedToBus(last)
    /\ \A s \in 1..Len(handlers) :
          handlers[s].pc = "publish" => handlers[s].media = PathsOf(handlers[s].fetches)

\* A message published with one path after one of its two fetches failed.
C9_Witness ==
    /\ last.pc = "published"
    /\ Len(last.fetches) = 2
    /\ Len(bus[Len(bus)].media) = 1

(***************************************************************************)
(* C10: an event with empty trimmed content and no fetched media is not    *)
(* handed to the bus; one with empty trimmed content and a fetched media   *)
(* path is, with the image placeholder as its content.                     *)
(***************************************************************************)
C10_EmptySuppression ==
    /\ \A k \in 1..Len(bus) :
          bus[k].media = <<>> => bus[k].content \notin {<<>>, ImagePlaceholder}
    /\ \A s \in 1..Len(handlers) :
          handlers[s].pc = "publish" =>
              handlers[s].raw_content # <<>> \/ handlers[s].media # <<>>
    /\ (last.pc = "empty" \/ HandedToBus(last)) =>
          /\ (last.raw_content = <<>> /\ last.media = <<>>) => last.pc = "empty"
          /\ (last.raw_content = <<>> /\ last.media # <<>>) => HandedToBus(last)
          /\ (last.raw_content = <<>> /\ last.pc = "published") =>
                /\ bus[Len(bus)].content = ImagePlaceholder
                /\ bus[Len(bus)].media = last.media

\* An event without text was dropped after its fetches failed, and an
\* earlier one without text was published with the placeholder.
C10_Witness ==
    /\ last.pc = "empty"
    /\ last.fetches # <<>>
    /\ \E k \in 1..Len(bus) : bus[k].content = ImagePlaceholder /\ bus[k].media # <<>>

(***************************************************************************)
(* The command texts as the specification reads them: the parts of the     *)
(* trimmed text between spaces, the first of them the command token.       *)
(***************************************************************************)
\* The call that completed last was processed as a new event: it was not
\* discarded as a duplicate, and its text was read.
Processed(h) == h.pc \in {"empty", "raised", "published"} /\ h.author # NoAuthor

Parts(h) == Split(h.raw_content, 2)

Token(h) == Lower(Parts(h)[1])

DecimalDigits == {"0", "1", "2", "3", "4", "5", "6", "7", "8", "9"}

PositiveInteger(s) ==
    /\ s # <<>>
    /\ \A k \in 1..Len(s) : s[k] \in DecimalDigits
    /\ \E k \in 1..Len(s) : s[k] # "0"

(***************************************************************************)
(* C11: for a text "/context N [text]" the memory_window directive is      *)
(* produced if and only if the second part is a positive integer; then the *)
(* content forwarded is the trailing text, or the marker when there is     *)
(* none; otherwise no directive is produced and the text is forwarded as   *)
(* it is.                                                                  *)
(***************************************************************************)
C11_ContextDirective ==
    (Processed(last) /\ Token(last) = CmdContext) =>
        IF Len(Parts(last)) >= 2 /\ PositiveInteger(Parts(last)[2])
        THEN /\ last.metadata.memory_window = IntOf(Parts(last)[2])
             /\ last.content = IF Len(Parts(last)) > 2 THEN Parts(last)[3]
                               ELSE WindowMarker(Parts(last)[2])
        ELSE /\ last.metadata.memory_window = NoWindow
             /\ last.content = last.raw_content
             /\ HandedToBus(last)

(***************************************************************************)
(* C12: a published message whose command token is /reset carries          *)
(* reset_session = true and the reset marker as its content, whatever      *)
(* follows the command; a text that does not start with "/" and an         *)
(* unrecognized command carry no directive and are forwarded as they are.  *)
(***************************************************************************)
C12_ResetDirective ==
    (last.pc = "published" /\ last.raw_content # <<>>) =>
        LET msg == bus[Len(bus)] IN
        /\ msg.metadata.message_id = last.id
        /\ (Head(last.raw_content) = "/" /\ Token(last) = CmdReset) =>
              /\ msg.metadata.reset_session
              /\ msg.metadata.memory_window = NoWindow
              /\ msg.content = ResetMarker
        /\ (Head(last.raw_content) # "/" \/ Token(last) \notin {CmdReset, CmdContext}) =>
              /\ ~msg.metadata.reset_session
              /\ msg.metadata.memory_window = NoWindow
              /\ msg.content = last.raw_content

\* A message published for a /reset command that had a text after it.
C12_Witness ==
    /\ last.pc = "published"
    /\ Token(last) = CmdReset
    /\ Len(Parts(last)) > 1
    /\ bus[Len(bus)].content = ResetMarker

(***************************************************************************)
(* C13: the sender id of a published message is the author's id if it has  *)
(* one, else its user_openid, else "unknown"; from an author with the      *)
(* user_openid field alone it is not empty and not "unknown".              *)
(***************************************************************************)
Yields(x) == x.t = "str" /\ x.v # <<>>

Resolve(author) == IF Yields(author.id) THEN author.id.v
                   ELSE IF Yields(author.user_openid) THEN author.user_openid.v
                   ELSE Unknown

C13_SenderFallback ==
    last.pc = "published" =>
        LET sender == bus[Len(bus)].sender_id IN
        /\ sender = Resolve(last.author)
        /\ (last.author.id.t = "noattr" /\ Yields(last.author.user_openid)) =>
              sender # <<>> /\ sender # Unknown

(***************************************************************************)
(* C14: send() calls the platform's send primitive only when a client      *)
(* session is active: a send() made while the running flag is false (the   *)
(* channel never started, start() failed, or stop() was called) makes no   *)
(* platform call.                                                          *)
(***************************************************************************)
C14_NoSessionNoPost ==
    /\ \A s \in 1..Len(sending) : sending[s].running
    /\ lastSend.result \in {"posted", "failed", "raised"} => lastSend.running

(***************************************************************************)
(* C15: a send() call makes at most one call of the platform's send        *)
(* primitive; when that call fails send() returns: it does not call again, *)
(* raises nothing, and leaves the running flag, the client, the supervisor *)
(* tasks and the dedup ledger as they were.                                *)
(***************************************************************************)
C15_SingleAttempt ==
    /\ [](nPosts <= nSends /\ lastSend.result # "raised")
    /\ [][(nSends' # nSends \/ sending' # sending) =>
             /\ nPosts' <= nPosts + 1
             /\ nPosts' # nPosts => nSends' = nSends + 1
             /\ <<_running, _client, _bot_task, tasks, _processed_ids>>' =
                    <<_running, _client, _bot_task, tasks, _processed_ids>>]_vars

\* A send failed while a supervisor task held a connection and the ledger
\* held an id.
C15_Witness ==
    /\ lastSend.result = "failed"
    /\ _running
    /\ _processed_ids # <<>>
    /\ \E t \in Tasks : tasks[t].pc = "connecting"

(***************************************************************************)
(* C16: every reconnect attempt of the supervisor loop is made with a      *)
(* client that was created for it: the client of a task's connection       *)
(* attempt is not the client of the attempt the task made before.          *)
(***************************************************************************)
C16_FreshClient ==
    [][\A t \in Tasks :
          (/\ tasks'[t].pc = "connecting"
           /\ tasks[t].pc # "connecting"
           /\ tasks[t].client # NoClient) =>
              tasks'[t].client # tasks[t].client]_vars

(***************************************************************************)
(* C17: the delivery of an event whose id is in the ledger changes         *)
(* nothing: the ledger keeps its contents and order, no media fetch is     *)
(* started and nothing is published.                                       *)
(***************************************************************************)
C17_DuplicateNoOp ==
    [][(/\ Len(delivered') > Len(delivered)
        /\ \E k \in 1..Len(_processed_ids) :
              _processed_ids[k] = delivered'[Len(delivered')]) =>
             /\ _processed_ids' = _processed_ids
             /\ handlers' = handlers
             /\ bus' = bus
             /\ last'.pc = "dup"
             /\ last'.fetches = <<>>
             /\ last'.media = <<>>]_vars

\* A duplicate of an event with attachments, discarded while it was not the
\* newest id of the ledger.
C17_Witness ==
    /\ last.pc = "dup"
    /\ Len(_processed_ids) > 1
    /\ _processed_ids[Len(_processed_ids)] # last.id
    /\ \E k \in 1..Len(bus) : bus[k].metadata.message_id = last.id /\ bus[k].media # <<>>

(***************************************************************************)
(* C18: the membership test and the insertion of _on_message are one step, *)
(* so of the calls that interleave at their media fetches and publishes no *)
(* two with the same id both pass the test: for every id, the calls in     *)
(* flight and the messages published are together no more than the         *)
(* deliveries that found the id outside the dedup window.                  *)
(***************************************************************************)
NewCount(i) == Cardinality({k \in 1..Len(delivered) : delivered[k] = i /\ NewAt(k)})

Admitted(i) == Cardinality({s \in 1..Len(handlers) : handlers[s].id = i}) + Published(i)

C18_AtomicDedup == \A i \in Ids : Admitted(i) <= NewCount(i)

\* The id of a call suspended between two media fetches was delivered again
\* and discarded.
C18_Witness ==
    /\ last.pc = "dup"
    /\ NewCount(last.id) = 1
    /\ \E s \in 1..Len(handlers) :
          /\ handlers[s].id = last.id
          /\ handlers[s].pc = "fetch"
          /\ handlers[s].fetches # <<>>

(***************************************************************************)
(* C19: the id of an event is in the ledger before the event is processed: *)
(* an event that is dropped (nothing to forward, or an exception) keeps    *)
(* its id in the ledger, and a delivery of that id within the dedup window *)
(* is discarded, so nothing is ever published for it.                      *)
(***************************************************************************)
C19_MarkedBeforeProcessed ==
    /\ [](\A i \in dropped :
             /\ NewCount(i) = 1 => Published(i) = 0
             /\ i \in Range(Window(delivered)) => i \in Range(_processed_ids))
    /\ [][(/\ Len(delivered') > Len(delivered)
           /\ delivered'[Len(delivered')] \in dropped
           /\ delivered'[Len(delivered')] \in Range(Window(delivered))) =>
                /\ last'.pc = "dup"
                /\ handlers' = handlers
                /\ bus' = bus]_vars

\* An event whose publish raised was delivered again within the window and
\* discarded.
C19_Witness ==
    /\ last.pc = "dup"
    /\ last.id \in dropped
    /\ DeliveredTwice(last.id)
    /\ Published(last.id) = 0
    /\ bus # <<>>

(***************************************************************************)
(* C20: stop() called before any successful start(), or after the task of  *)
(* the session has ended, returns without raising, starts no connection    *)
(* attempt, leaves the running flag false and leaves the ledger as it was; *)
(* a start() after stop() creates a new supervisor task and leaves the     *)
(* ledger as it was.                                                       *)
(***************************************************************************)
C20_StopIdempotent ==
    /\ [](lastStop.result # "raised")
    /\ [][(nStops' = nStops + 1 /\ (_bot_task = NoTask \/ tasks[_bot_task].pc \in Finished)) =>
             /\ lastStop'.result = "returned"
             /\ stopping' = NoTask
             /\ ~_running'
             /\ tasks' = tasks
             /\ _processed_ids' = _processed_ids]_vars
    /\ [][(/\ nStops > 0
           /\ nStops' = nStops
           /\ nCalls' = nCalls + 1
           /\ lastStart' = "started"
           /\ tasks' # tasks) =>
             /\ _running'
             /\ _bot_task' # _bot_task
             /\ tasks[_bot_task'].pc = "none"
             /\ tasks'[_bot_task'].pc = "created"
             /\ _processed_ids' = _processed_ids]_vars

\* Of three stop() calls the last came after an earlier one had cancelled
\* the task of the session, and it returned.
C20_Witness ==
    /\ nStops = 3
    /\ stopping = NoTask
    /\ lastStop.result = "returned"
    /\ lastStop.task # NoTask
    /\ tasks[lastStop.task].pc = "cancelled"

=============================================================================
